---------------------------- MODULE Spec2Model ----------------------------
(***************************************************************************)
(* Model of the deployment / pipeline resolution engine of the Jira /      *)
(* Bitbucket bridge:                                                        *)
(*   - src/main.py               the /deployments handler (deployments())   *)
(*     with its commit extractor (_commit_hash_from_deployment) and its     *)
(*     commit enricher (_enrich_commit);                                    *)
(*   - src/bbclient.py           the paginator (_get_paginated);            *)
(*   - src/pipeline_dashboard.py the dashboard assembler (get_dashboard).   *)
(*                                                                          *)
(* JSON values are encoded as follows.  A leaf that the code reads with     *)
(* .get() is a TLA+ string: None stands for a missing key or a JSON null,   *)
(* Obj for a truthy value that is not a string (a nested object, a number), *)
(* "" for the empty string, anything else for that string.  Strings that    *)
(* the code orders (timestamps, repository and environment names) are       *)
(* sequences of character codes, compared as Python compares str.  A URL    *)
(* is the sequence of its segments between "/" characters.                  *)
(***************************************************************************)
EXTENDS Naturals, Sequences, FiniteSets, TLC

VARIABLES
    \* ---- the commit extractor applied to one record (pure function) ----
    ex_item,        \* the record handed to _commit_hash_from_deployment
    ex_out,         \* its return value
    ex_pc,          \* "ready" | "done"
    \* ---- one call of the /deployments handler, main.py deployments() ----
    repos,          \* the configured repositories (slugs), in configured order
    ri,             \* index in repos of the repository being processed
    pc,             \* position in the handler
    values,         \* resp.json()["values"] of the deployments listing
    vi,             \* index in values of the next record to group
    success,        \* success_any_workspace
    latest_by_env,  \* dict in insertion order: sequence of [env, d]
    env_cache,      \* dict environment uuid -> resolved name
    env_names,      \* env_name of each record grouped so far (line 372)
    commit_cache,   \* dict commit hash -> [message, date, tag]
    to_enrich,      \* list of commit hashes to enrich
    ci,             \* index in latest_by_env of the next record to collect
    detail_log,     \* per record collected: the record, and the detail fetch made
    ei,             \* index in to_enrich of the next hash to enrich
    out,            \* the list of entries the handler returns
    calls,          \* the requests issued upstream so far, in order
    last_commit,    \* response of the latest commit-detail request
    last_tags,      \* response of the latest tag-search request
    \* ---- one call of PipelineDashboard.get_dashboard ----
    pd_repos,       \* self.repo_full_names
    pd_categories,  \* the categories asked for (tag patterns)
    pd_max_items,   \* max_items
    pd_ri,          \* index in pd_repos of the repository being processed
    pd_ki,          \* index in pd_categories of the pattern being listed
    pd_pc,          \* position in get_dashboard
    pd_url,         \* _get_paginated: url, the page to request next
    pd_count,       \* _get_paginated: count, the items yielded so far
    pd_entries,     \* entries of the pattern being listed
    pd_repo_data,   \* repo_data: dict pattern -> entries
    pd_dashboard,   \* dashboard: dict repo_slug -> repo_data
    pd_clients,     \* the BitbucketClients created so far, each open or closed
    pd_fetches,     \* the page requests issued so far, in order
    pd_error        \* the exception get_dashboard ended with, NoError if none

ex_vars == <<ex_item, ex_out, ex_pc>>

dep_vars == <<repos, ri, pc, values, vi, success, latest_by_env, env_cache,
              env_names, detail_log, commit_cache, to_enrich, ci, ei, out, calls, last_commit, last_tags>>

pd_vars == <<pd_repos, pd_categories, pd_max_items, pd_ri, pd_ki, pd_pc, pd_url,
             pd_count, pd_entries, pd_repo_data, pd_dashboard, pd_clients, pd_fetches,
             pd_error>>

vars == <<ex_vars, dep_vars, pd_vars>>

-----------------------------------------------------------------------------
(* JSON leaves *)

None == "<None>"
Obj  == "<object>"

\* Python truthiness of a leaf: None and "" are falsy.
Truthy(v) == v \notin {None, ""}

\* isinstance(v, str)
IsStr(v) == v \notin {None, Obj}

\* Python's `a or b` on leaves.
Or(a, b) == IF Truthy(a) THEN a ELSE b

-----------------------------------------------------------------------------
(* Ordered strings.  Python compares str lexicographically by code point:  *)
(* the first differing character decides, and a proper prefix is smaller.   *)

RECURSIVE SeqLt(_, _)
SeqLt(s, t) ==
    IF t = <<>> THEN FALSE
    ELSE IF s = <<>> THEN TRUE
    ELSE IF s[1] # t[1] THEN s[1] < t[1]
    ELSE SeqLt(Tail(s), Tail(t))

\* Timestamps are fixed-width digit strings (ISO-8601 has fixed width); the
\* n-th instant is written with two digits.
Stamp(n) == <<n \div 10, n % 10>>

\* Character codes (a = 1 .. z = 26) of the repository and environment names
\* that occur in the model.
Chars(name) ==
    CASE name = "api"      -> <<1, 16, 9>>
      [] name = "app"      -> <<1, 16, 16>>
      [] name = "web"      -> <<23, 5, 2>>
      [] name = "main"     -> <<13, 1, 9, 14>>
      [] name = "pipeline" -> <<16, 9, 16, 5, 12, 9, 14, 5>>
      [] name = "prod"     -> <<16, 18, 15, 4>>
      [] name = "qa"       -> <<17, 1>>
      [] name = "stg"      -> <<19, 20, 7>>

\* a < b on names
NameLt(a, b) == SeqLt(Chars(a), Chars(b))

-----------------------------------------------------------------------------
(* URLs: href strings as sequences of "/"-separated segments.  NoHref is    *)
(* the value of .get("href") when the key is missing.                       *)

NoHref == <<>>

RECURSIVE Join(_)
\* "/".join(segs) for a non-empty sequence of segments
Join(segs) ==
    IF Len(segs) = 1 THEN segs[1]
    ELSE segs[1] \o "/" \o Join(Tail(segs))

\* "/commit/" in href
ContainsCommit(href) ==
    \E i \in 2..(Len(href) - 1) : href[i] = "commit"

RECURSIVE RStripSlash(_)
\* href.rstrip("/"): trailing empty segments are dropped (the string "/" * n
\* becomes the empty string, one empty segment)
RStripSlash(href) ==
    IF Len(href) > 1 /\ href[Len(href)] = ""
    THEN RStripSlash(SubSeq(href, 1, Len(href) - 1))
    ELSE href

RECURSIVE LastSplitAt(_, _, _)
\* str.split("/commit/") scans left to right for non-overlapping matches; a
\* match at segment i uses the slash on either side of it.  Returns the index
\* of the last matched segment (0 when there is no match), scanning from i.
LastSplitAt(href, i, last) ==
    IF i > Len(href) - 1 THEN last
    ELSE IF href[i] = "commit" THEN LastSplitAt(href, i + 2, i)
    ELSE LastSplitAt(href, i + 1, last)

\* href.rstrip("/").split("/commit/")[-1]
HashFromHref(href) ==
    LET s == RStripSlash(href)
        m == LastSplitAt(s, 2, 0)
    IN  Join(SubSeq(s, m + 1, Len(s)))

-----------------------------------------------------------------------------
(* Deployment / pipeline records.  A record is flattened by field path:     *)
(* commit_hash is commit.hash (commit an object), commit_str is commit when *)
(* it is itself a string, and so on.  Timestamps are digit sequences, <<>>  *)
(* when missing or empty.  environment is the env_obj of the resolver.      *)

NoEnv == [kind |-> "none", name |-> None, environment_type |-> None, uuid |-> None]

EmptyItem ==
    [ uuid                           |-> None,
      environment                    |-> NoEnv,
      update_time                    |-> <<>>,
      updated_on                     |-> <<>>,
      completed_on                   |-> <<>>,
      created_on                     |-> <<>>,
      deployable_commit_hash         |-> None,
      release_commit_hash            |-> None,
      commit_hash                    |-> None,
      commit_str                     |-> None,
      deployment_commit_hash         |-> None,
      deployment_commit_str          |-> None,
      deployment_uuid                |-> None,
      pull_request_merge_commit_hash |-> None,
      target_commit_hash             |-> None,
      revision                       |-> None,
      source_commit_hash             |-> None,
      links_commit_href              |-> NoHref,
      links_html_href                |-> NoHref ]

-----------------------------------------------------------------------------
(* Commit extractor: main.py _commit_hash_from_deployment *)

\* the `paths` list, in order (each path walked with isinstance(node, dict))
CommitPaths(item) ==
    << item.commit_hash,
       item.commit_str,
       item.deployment_commit_hash,
       item.deployment_commit_str,
       item.pull_request_merge_commit_hash,
       item.target_commit_hash >>

\* for p in paths: ... if node and isinstance(node, str): return node
FirstPathHit(item) ==
    LET ps   == CommitPaths(item)
        hits == {i \in 1..Len(ps) : Truthy(ps[i]) /\ IsStr(ps[i])}
    IN  IF hits = {} THEN None
        ELSE ps[CHOOSE i \in hits : \A j \in hits : i <= j]

\* alt = item.get("revision") or item.get("source", {}).get("commit", {}).get("hash")
AltCommit(item) == Or(item.revision, item.source_commit_hash)

\* if isinstance(alt, str): return alt
AltReturns(item) == IsStr(AltCommit(item))

\* (links.get("commit", {}) or links.get("html", {})).get("href"):
\* links.commit is chosen whenever it is a non-empty object
LinksHref(item) ==
    IF item.links_commit_href # NoHref THEN item.links_commit_href
    ELSE item.links_html_href

\* a non-empty href string
HrefTruthy(href) == href # NoHref /\ href # <<"">>

CommitHashFromDeployment(item) ==
    IF FirstPathHit(item) # None THEN FirstPathHit(item)
    ELSE IF AltReturns(item) THEN AltCommit(item)
    ELSE IF HrefTruthy(LinksHref(item)) /\ ContainsCommit(LinksHref(item))
         THEN HashFromHref(LinksHref(item))
    ELSE None

-----------------------------------------------------------------------------
(* Specification of the extractor alone: a record is drawn from ExtractPool *)
(* and the extractor is applied to it.                                      *)

UrlNoCommit    == <<"https:", "", "bb.org", "ws", "repo", "deployments", "7">>
UrlCommit      == <<"https:", "", "bb.org", "ws", "repo", "commit", "c0ffee">>
UrlCommitSlash == <<"https:", "", "bb.org", "ws", "repo", "commit", "deadbeef", "">>

\* commit: absent, an object with a hash, or a plain string
CommitShapes ==
    { <<None, None>>, <<"h_commit", None>>, <<None, "s_commit">>, <<"", None>> }

DeploymentShapes ==
    { <<None, None>>, <<"h_deployment", None>>, <<None, "s_deployment">> }

ExtractPool ==
    { [EmptyItem EXCEPT
          !.deployable_commit_hash         = dc,
          !.release_commit_hash            = rc,
          !.commit_hash                    = c[1],
          !.commit_str                     = c[2],
          !.deployment_commit_hash         = dp[1],
          !.deployment_commit_str          = dp[2],
          !.pull_request_merge_commit_hash = pr,
          !.target_commit_hash             = tg,
          !.revision                       = rv,
          !.source_commit_hash             = sc,
          !.links_commit_href              = lc,
          !.links_html_href                = lh ] :
        c  \in CommitShapes,
        dp \in DeploymentShapes,
        pr \in {None, "h_pr"},
        tg \in {None, "h_target"},
        rv \in {None, "", "h_revision", Obj},
        sc \in {None, "", "h_source"},
        lc \in {NoHref, UrlNoCommit, UrlCommit},
        lh \in {NoHref, UrlNoCommit, UrlCommitSlash},
        rc \in {None, "zzz999"},
        dc \in {None, "abc123"} }

ExInit ==
    /\ ex_item \in ExtractPool
    /\ ex_out = None
    /\ ex_pc = "ready"

\* one call of _commit_hash_from_deployment(ex_item)
ExtractCommit ==
    /\ ex_pc = "ready"
    /\ ex_out' = CommitHashFromDeployment(ex_item)
    /\ ex_pc' = "done"
    /\ UNCHANGED ex_item

-----------------------------------------------------------------------------
(* Python dicts.  A dict read with .get() is a function on its keys;        *)
(* latest_by_env, whose iteration order the handler depends on, is the      *)
(* sequence of its items in insertion order.                                *)

EmptyDict == [k \in {} |-> None]

\* cache.get(k)
DictGet(dict, k) == IF k \in DOMAIN dict THEN dict[k] ELSE None

\* cache[k] = v
DictSet(dict, k, v) ==
    [x \in (DOMAIN dict) \cup {k} |-> IF x = k THEN v ELSE dict[x]]

Range(seq) == {seq[i] : i \in 1..Len(seq)}

EnvKeys(latest) == {latest[i].env : i \in 1..Len(latest)}

EnvIndex(latest, env) == CHOOSE i \in 1..Len(latest) : latest[i].env = env

\* latest_by_env[env]
EnvItem(latest, env) == latest[EnvIndex(latest, env)].d

\* latest_by_env[env] = d : a new key goes last, an old key keeps its place
EnvPut(latest, env, d) ==
    IF env \in EnvKeys(latest)
    THEN [latest EXCEPT ![EnvIndex(latest, env)].d = d]
    ELSE Append(latest, [env |-> env, d |-> d])

SeqsUpTo(S, n) == UNION {[1..k -> S] : k \in 0..n}

-----------------------------------------------------------------------------
(* Environment resolver: main.py deployments(), lines 348-383               *)

\* lines 349-354: the name the record carries itself
EnvDirectName(env_obj) ==
    IF env_obj.kind = "dict" THEN Or(env_obj.name, env_obj.environment_type)
    ELSE IF env_obj.kind = "str" THEN env_obj.name
    ELSE None

\* a failed lookup not remembered: the lookup is issued again when the cache
\* holds no name for the uuid
NeedsLookupAfterFailure(env_obj, cache) ==
    /\ ~Truthy(EnvDirectName(env_obj))
    /\ env_obj.kind = "dict"
    /\ Truthy(env_obj.uuid)
    /\ ~Truthy(DictGet(cache, env_obj.uuid))

\* lines 358-360: a secondary lookup is issued for this record
NeedsLookup(env_obj, cache) ==
    /\ ~Truthy(EnvDirectName(env_obj))
    /\ env_obj.kind = "dict"
    /\ Truthy(env_obj.uuid)
    /\ env_obj.uuid \notin DOMAIN cache

\* lines 364-368: what the lookup stores in env_cache
EnvLookupResult(resp) ==
    IF resp.status = 200 THEN Or(resp.name, resp.environment_type) ELSE None

\* lines 358-370: the name of the record once the cache is filled
EnvName(env_obj, cache) ==
    IF ~Truthy(EnvDirectName(env_obj)) /\ env_obj.kind = "dict"
    THEN DictGet(cache, env_obj.uuid)
    ELSE EnvDirectName(env_obj)

\* `a or b` on timestamps (<<>> is falsy)
TsOr(a, b) == IF a # <<>> THEN a ELSE b

\* lines 375-381: the candidate timestamp of a record
CandidateTs(d) ==
    TsOr(d.update_time, TsOr(d.updated_on, TsOr(d.completed_on, d.created_on)))

\* the comparison of line 382 written with >= in place of >
NotOlderThanRetained(ts, retained) == ~SeqLt(ts, retained.update_time)

\* line 382, second disjunct: ts > (latest_by_env[env_name].get("update_time") or "")
NewerThanRetained(ts, retained) == SeqLt(retained.update_time, ts)

\* line 382: the record replaces the one retained for its environment
Retains(latest, env, d) ==
    \/ env \notin EnvKeys(latest)
    \/ NewerThanRetained(CandidateTs(d), EnvItem(latest, env))

\* lines 372-383 for one record
Grouped(latest, env, d) ==
    IF Truthy(env) /\ Retains(latest, env, d) THEN EnvPut(latest, env, d)
    ELSE latest

-----------------------------------------------------------------------------
(* Pipeline fallback: main.py deployments(), lines 394-422                  *)

\* lines 406-407
PipelineResult(p) == Or(p.state_result_name, p.state_name)

\* line 410
StillRunning(p) == PipelineResult(p) \in {"IN_PROGRESS", "PENDING", "BUILDING"}

\* line 413: target.ref_name, "pipeline" when the key is missing
PipelineEnvKey(p) ==
    IF p.target_ref_name = None THEN "pipeline" ELSE p.target_ref_name

\* lines 414-420: the record stored for the pipeline
PipelineAsDeployment(p) ==
    [EmptyItem EXCEPT
        !.commit_str      = p.target_commit_hash,
        !.update_time     = TsOr(p.completed_on, p.created_on),
        !.links_html_href = p.links_html_href]

\* lines 405-422: the first pipeline that is not running is stored
FallbackLatest(pvalues) ==
    LET done == {i \in 1..Len(pvalues) : ~StillRunning(pvalues[i])}
    IN  IF done = {} THEN <<>>
        ELSE LET p == pvalues[CHOOSE i \in done : \A j \in done : i <= j]
             IN  <<[env |-> PipelineEnvKey(p), d |-> PipelineAsDeployment(p)]>>

-----------------------------------------------------------------------------
(* Detail fetch and merge: main.py deployments(), lines 464-492             *)

\* the fields of a record that one top-level JSON key holds
KeyFields(f) ==
    CASE f \in {"commit_hash", "commit_str"} -> {"commit_hash", "commit_str"}
      [] f \in {"deployment_commit_hash", "deployment_commit_str", "deployment_uuid"}
           -> {"deployment_commit_hash", "deployment_commit_str", "deployment_uuid"}
      [] f \in {"links_commit_href", "links_html_href"}
           -> {"links_commit_href", "links_html_href"}
      [] OTHER -> {f}

\* the top-level key that holds field f is present in the record
KeyPresent(item, f) == \E g \in KeyFields(f) : item[g] # EmptyItem[g]

\* line 485: d.update(dep_full) replaces every top-level key dep_full has
DictUpdate(d, full) ==
    [f \in DOMAIN d |-> IF KeyPresent(full, f) THEN full[f] ELSE d[f]]

\* line 490: d["commit"] = {"hash": ch2}
SetCommit(d, ch2) == [d EXCEPT !.commit_hash = ch2, !.commit_str = None]

\* lines 473-477
DetailUuid(d) == Or(d.uuid, d.deployment_uuid)

-----------------------------------------------------------------------------
(* Commit enricher: main.py _enrich_commit, lines 439-460                   *)

NoResponse == [hash |-> None, status |-> 0]

\* lines 445-448
MessageOf(rc) == IF rc.status = 200 THEN rc.message ELSE None

\* lines 445-449
DateOf(rc) == IF rc.status = 200 THEN Or(rc.date, rc.author_date) ELSE None

\* lines 454-458
TagOf(rt) ==
    IF rt.status = 200 /\ rt.values # <<>> THEN rt.values[1] ELSE None

\* the enrichment given up as a whole when the commit-detail request fails
CommitInfoAllOrNothing(rc, rt) ==
    IF rc.status = 200
    THEN [message |-> MessageOf(rc), date |-> DateOf(rc), tag |-> TagOf(rt)]
    ELSE [message |-> None, date |-> None, tag |-> None]

\* line 460
CommitInfo(rc, rt) ==
    [message |-> MessageOf(rc), date |-> DateOf(rc), tag |-> TagOf(rt)]

\* the cache consulted only for hashes whose lookups both succeeded
CacheHitIfFound(cache, ch) ==
    ch \in DOMAIN cache /\ cache[ch].message # None /\ cache[ch].tag # None

\* line 440: the hash is served from commit_cache
CacheHit(cache, ch) == ch \in DOMAIN cache

-----------------------------------------------------------------------------
(* Output: main.py deployments(), lines 499-537                             *)

\* line 512: info = commit_cache.get(commit_hash, {}) if commit_hash else {}
\* line 520: info.get("tag")
TagFor(cache, commit_hash) ==
    IF Truthy(commit_hash) /\ commit_hash \in DOMAIN cache
    THEN cache[commit_hash].tag
    ELSE None

\* lines 514-528 (name and result, which nothing below reads, are left out)
Entry(slug, env, d, cache) ==
    [ repository  |-> slug,
      environment |-> env,
      commit      |-> CommitHashFromDeployment(d),
      tag         |-> TagFor(cache, CommitHashFromDeployment(d)),
      update_time |-> CandidateTs(d),
      link        |-> d.links_html_href ]

\* entries emitted only for the records whose commit was enriched with a tag
EntriesOfEnriched(slug, latest, cache) ==
    LET F[i \in 0..Len(latest)] ==
            IF i = 0 THEN <<>>
            ELSE IF Entry(slug, latest[i].env, latest[i].d, cache).tag # None
                 THEN Append(F[i - 1], Entry(slug, latest[i].env, latest[i].d, cache))
                 ELSE F[i - 1]
    IN  F[Len(latest)]

\* lines 499-528: one entry per item of latest_by_env, in its order
Entries(slug, latest, cache) ==
    [i \in 1..Len(latest) |-> Entry(slug, latest[i].env, latest[i].d, cache)]

\* line 536: the sort key (x["repository"], x["environment"]), compared as tuples
KeyLt(a, b) ==
    \/ NameLt(a.repository, b.repository)
    \/ a.repository = b.repository /\ NameLt(a.environment, b.environment)

RECURSIVE InsertByKey(_, _)
\* e placed after every element whose key is not greater (list.sort is stable)
InsertByKey(sorted, e) ==
    IF sorted = <<>> THEN <<e>>
    ELSE IF KeyLt(e, sorted[Len(sorted)])
         THEN Append(InsertByKey(SubSeq(sorted, 1, Len(sorted) - 1), e),
                     sorted[Len(sorted)])
         ELSE Append(sorted, e)

RECURSIVE SortByKey(_)
SortByKey(list) ==
    IF list = <<>> THEN <<>>
    ELSE InsertByKey(SortByKey(SubSeq(list, 1, Len(list) - 1)), list[Len(list)])

\* the list returned as the repositories were processed
Unsorted(list) == list

\* line 536: out.sort(key=...)
SortedOut(list) == SortByKey(list)

-----------------------------------------------------------------------------
(* What upstream may answer.  Every response is chosen when the request is  *)
(* issued: a status and, on 200, a body.                                    *)

MaxRecords == 2          \* records in one deployments listing (Spec)
MaxResolverRecords == 3  \* records in one deployments listing (SpecResolver)
MaxStamp == 2            \* distinct instants in the resolver's records
MaxEnvRecords == 3       \* records in one deployments listing (SpecEnvCache)
MaxDetailRecords == 3    \* records in one deployments listing (SpecDetail)

StrEnv(n) == [kind |-> "str", name |-> n, environment_type |-> None, uuid |-> None]
DictEnv(n, t, u) == [kind |-> "dict", name |-> n, environment_type |-> t, uuid |-> u]

\* deployments of the build: two environments sharing a commit, an environment
\* known by uuid only, a record without commit, a record without environment
BuildPool ==
    { [EmptyItem EXCEPT !.uuid = "{d1}", !.environment = StrEnv("qa"),
                        !.update_time = Stamp(1), !.commit_hash = "c1"],
      [EmptyItem EXCEPT !.uuid = "{d2}", !.environment = DictEnv("prod", None, "{e0}"),
                        !.updated_on = Stamp(2), !.commit_hash = "c1"],
      [EmptyItem EXCEPT !.uuid = "{d3}", !.environment = DictEnv(None, None, "{e1}"),
                        !.update_time = Stamp(2), !.target_commit_hash = "c2"],
      [EmptyItem EXCEPT !.uuid = "{d4}", !.environment = StrEnv("prod"),
                        !.update_time = Stamp(2)],
      [EmptyItem EXCEPT !.uuid = "{d5}", !.commit_hash = "c1"] }

\* the timestamp carried in one of the four fields
WithStamp(d, field, ts) ==
    CASE field = "update_time"  -> [d EXCEPT !.update_time = ts]
      [] field = "updated_on"   -> [d EXCEPT !.updated_on = ts]
      [] field = "completed_on" -> [d EXCEPT !.completed_on = ts]
      [] field = "created_on"   -> [d EXCEPT !.created_on = ts]

StampFields == {"update_time", "updated_on", "completed_on", "created_on"}

\* deployments of the resolver: every instant in every field for one
\* environment, two instants in two fields at once, no timestamp at all, a
\* second deployment at each instant, and a second environment
ResolverPool ==
    LET prod == [EmptyItem EXCEPT !.uuid = "{d1}", !.environment = StrEnv("prod"),
                                  !.commit_hash = "c1"]
        qa   == [EmptyItem EXCEPT !.uuid = "{d3}", !.environment = DictEnv("qa", None, None),
                                  !.commit_hash = "c1"]
    IN  {WithStamp(prod, f, Stamp(n)) : f \in StampFields, n \in 1..MaxStamp}
        \cup {[WithStamp(prod, f, Stamp(MaxStamp)) EXCEPT !.uuid = "{d2}"] :
                 f \in {"update_time", "updated_on"}}
        \cup {[prod EXCEPT !.update_time = Stamp(1), !.created_on = Stamp(MaxStamp)]}
        \cup {prod}
        \cup {WithStamp(qa, "update_time", Stamp(1)), WithStamp(qa, "created_on", Stamp(MaxStamp))}

\* deployments of the environment cache: two deployments of an environment
\* known by uuid only, one of another such environment, one that carries a
\* name beside the first uuid, and one whose environment has neither
EnvPool ==
    { [EmptyItem EXCEPT !.uuid = "{d1}", !.environment = DictEnv(None, None, "{e1}"),
                        !.update_time = Stamp(1), !.commit_hash = "c1"],
      [EmptyItem EXCEPT !.uuid = "{d2}", !.environment = DictEnv(None, None, "{e1}"),
                        !.update_time = Stamp(2), !.commit_hash = "c1"],
      [EmptyItem EXCEPT !.uuid = "{d3}", !.environment = DictEnv("", None, "{e2}"),
                        !.update_time = Stamp(1), !.commit_hash = "c1"],
      [EmptyItem EXCEPT !.uuid = "{d4}", !.environment = DictEnv("prod", None, "{e1}"),
                        !.update_time = Stamp(2), !.commit_hash = "c1"],
      [EmptyItem EXCEPT !.uuid = "{d5}", !.environment = DictEnv(None, None, None),
                        !.update_time = Stamp(2), !.commit_hash = "c1"] }

\* deployments of the detail fetch: one with a commit, one without, one
\* whose only commit field is an empty source.commit.hash, and one without
\* commit known by its nested deployment.uuid
DetailPool ==
    { [EmptyItem EXCEPT !.uuid = "{d1}", !.environment = StrEnv("qa"),
                        !.update_time = Stamp(1), !.commit_hash = "c2"],
      [EmptyItem EXCEPT !.uuid = "{d4}", !.environment = StrEnv("prod"),
                        !.update_time = Stamp(2)],
      [EmptyItem EXCEPT !.uuid = "{d6}", !.environment = StrEnv("stg"),
                        !.update_time = Stamp(1), !.source_commit_hash = ""],
      [EmptyItem EXCEPT !.deployment_uuid = "{d8}", !.environment = StrEnv("qa"),
                        !.update_time = Stamp(2)] }

ListingResponses(pool, n) ==
    {[status |-> 404, values |-> <<>>]}
    \cup {[status |-> 200, values |-> v] : v \in SeqsUpTo(pool, n)}

EnvResponses ==
    { [status |-> 404, name |-> None, environment_type |-> None],
      [status |-> 200, name |-> "stg", environment_type |-> None],
      [status |-> 200, name |-> None, environment_type |-> None] }

Pipeline(ref, hash, result, state) ==
    [ target_ref_name |-> ref, target_commit_hash |-> hash,
      completed_on |-> IF result = None THEN <<>> ELSE Stamp(2),
      created_on |-> Stamp(1),
      state_result_name |-> result, state_name |-> state,
      links_html_href |-> NoHref ]

PipelineResponses ==
    { [status |-> 404, values |-> <<>>],
      [status |-> 200, values |-> <<>>],
      [status |-> 200, values |-> << Pipeline("main", "c3", None, "IN_PROGRESS"),
                                     Pipeline("main", "c1", "SUCCESSFUL", "COMPLETED") >>],
      [status |-> 200, values |-> << Pipeline(None, "c2", "FAILED", "COMPLETED") >>] }

\* the expanded record of a deployment: with a commit, or still without one
DetailResponses ==
    { [status |-> 404, body |-> EmptyItem],
      [status |-> 200, body |-> [EmptyItem EXCEPT !.uuid = "{d4}",
                                     !.environment = StrEnv("prod"),
                                     !.update_time = Stamp(2),
                                     !.deployment_commit_hash = "c2"]],
      [status |-> 200, body |-> [EmptyItem EXCEPT !.uuid = "{d4}",
                                     !.environment = StrEnv("prod"),
                                     !.update_time = Stamp(2)]] }

CommitResponses ==
    { [status |-> 404, message |-> None, date |-> None, author_date |-> None],
      [status |-> 200, message |-> "fix login", date |-> "2024-05-01", author_date |-> None],
      [status |-> 200, message |-> "fix login", date |-> None, author_date |-> "2024-04-30"] }

TagResponses ==
    { [status |-> 404, values |-> <<>>],
      [status |-> 200, values |-> <<>>],
      [status |-> 200, values |-> <<"v1.2">>] }

Call(kind, repo, key) == [kind |-> kind, repo |-> repo, key |-> key]

-----------------------------------------------------------------------------
(* The handler: main.py deployments(), one action per stretch of code       *)
(* between two points where it waits for upstream.                          *)

slug == repos[ri]

\* lines 322-346, per repository: the per-repository state is fresh (the
\* caches of lines 333, 436 and 463 are created anew in every iteration) and
\* the deployments listing is requested
StartRepo(pool, n) ==
    /\ pc = "start"
    /\ \E resp \in ListingResponses(pool, n) :
          /\ values' = resp.values
          /\ success' = (resp.status = 200)
          /\ pc' = IF resp.values # <<>> THEN "group" ELSE "fallback"
    /\ calls' = Append(calls, Call("deployments", slug, None))
    /\ latest_by_env' = <<>>
    /\ env_cache' = EmptyDict
    /\ env_names' = <<>>
    /\ detail_log' = <<>>
    /\ commit_cache' = EmptyDict
    /\ to_enrich' = <<>>
    /\ vi' = 1 /\ ci' = 1 /\ ei' = 1
    /\ last_commit' = NoResponse /\ last_tags' = NoResponse
    /\ UNCHANGED <<repos, ri, out>>

\* lines 348-383 for the record values[vi], with the environment lookup it
\* may issue
GroupRecord ==
    /\ pc = "group"
    /\ LET d == values[vi]
           lookup == NeedsLookup(d.environment, env_cache)
       IN  \E resp \in EnvResponses :
              LET cache == IF lookup
                           THEN DictSet(env_cache, d.environment.uuid, EnvLookupResult(resp))
                           ELSE env_cache
                  latest == Grouped(latest_by_env, EnvName(d.environment, cache), d)
              IN  /\ lookup \/ resp.status = 404    \* no request, no answer to choose
                  /\ env_cache' = cache
                  /\ env_names' = Append(env_names, EnvName(d.environment, cache))
                  /\ latest_by_env' = latest
                  /\ calls' = IF lookup
                              THEN Append(calls, Call("environment", slug, d.environment.uuid))
                              ELSE calls
                  /\ pc' = IF vi < Len(values) THEN "group"
                           ELSE IF latest = <<>> THEN "fallback" ELSE "collect"
    /\ vi' = vi + 1
    /\ UNCHANGED <<repos, ri, values, success, commit_cache, to_enrich, ci, ei, out,
                   detail_log, last_commit, last_tags>>

\* lines 394-430: no deployment was retained; the pipelines listing is
\* requested, and a repository that gave nothing at all is skipped
PipelineFallback ==
    /\ pc = "fallback"
    /\ \E resp \in PipelineResponses :
          LET latest == IF resp.status = 200 THEN FallbackLatest(resp.values) ELSE <<>>
              ok     == success \/ resp.status = 200
          IN  /\ latest_by_env' = latest
              /\ success' = ok
              /\ IF latest = <<>> /\ ~ok
                 THEN \* line 430: continue
                      /\ ri' = ri + 1
                      /\ pc' = IF ri < Len(repos) THEN "start" ELSE "sort"
                 ELSE /\ ri' = ri
                      /\ pc' = IF latest # <<>> THEN "collect" ELSE "emit"
    /\ calls' = Append(calls, Call("pipelines", slug, None))
    /\ UNCHANGED <<repos, values, vi, env_cache, env_names, commit_cache, to_enrich,
                   ci, ei, out, detail_log, last_commit, last_tags>>

\* lines 464-492 for the record latest_by_env[ci], with the detail fetch it
\* may issue
CollectRecord ==
    /\ pc = "collect"
    /\ LET d  == latest_by_env[ci].d
           ch == CommitHashFromDeployment(d)
           fetch == ~Truthy(ch) /\ Truthy(DetailUuid(d))
       IN  \E resp \in DetailResponses :
              LET ch2 == CommitHashFromDeployment(resp.body)
                  hit == Truthy(ch2) /\ ch2 \notin Range(to_enrich)
                  merged == IF hit THEN SetCommit(DictUpdate(d, resp.body), ch2)
                            ELSE DictUpdate(d, resp.body)
                  list == IF Truthy(ch) THEN Append(to_enrich, ch)
                          ELSE IF fetch /\ resp.status = 200 /\ hit THEN Append(to_enrich, ch2)
                          ELSE to_enrich
              IN  /\ fetch \/ resp.status = 404     \* no request, no answer to choose
                  /\ to_enrich' = list
                  /\ latest_by_env' = IF fetch /\ resp.status = 200
                                      THEN [latest_by_env EXCEPT ![ci].d = merged]
                                      ELSE latest_by_env
                  /\ calls' = IF fetch THEN Append(calls, Call("detail", slug, DetailUuid(d)))
                              ELSE calls
                  /\ detail_log' = Append(detail_log,
                         [env |-> latest_by_env[ci].env, before |-> d, fetched |-> fetch,
                          status |-> IF fetch THEN resp.status ELSE 0,
                          body |-> IF fetch THEN resp.body ELSE EmptyItem])
                  /\ pc' = IF ci < Len(latest_by_env) THEN "collect"
                           ELSE IF list # <<>> THEN "enrich" ELSE "emit"
    /\ ci' = ci + 1
    /\ UNCHANGED <<repos, ri, values, vi, success, env_cache, env_names, commit_cache,
                   ei, out, last_commit, last_tags>>

\* lines 495-497 for the hash to_enrich[ei]: one call of _enrich_commit
\* (lines 439-460), which issues its two requests unless the hash is cached
EnrichCommit ==
    /\ pc = "enrich"
    /\ LET ch == to_enrich[ei]
       IN  IF CacheHit(commit_cache, ch)
           THEN UNCHANGED <<commit_cache, calls, last_commit, last_tags>>
           ELSE \E rc \in CommitResponses, rt \in TagResponses :
                   /\ commit_cache' = DictSet(commit_cache, ch, CommitInfo(rc, rt))
                   /\ calls' = calls \o <<Call("commit", slug, ch), Call("tags", slug, ch)>>
                   /\ last_commit' = [hash |-> ch, status |-> rc.status, body |-> rc]
                   /\ last_tags' = [hash |-> ch, status |-> rt.status, body |-> rt]
    /\ ei' = ei + 1
    /\ pc' = IF ei < Len(to_enrich) THEN "enrich" ELSE "emit"
    /\ UNCHANGED <<repos, ri, values, vi, success, latest_by_env, env_cache, env_names,
                   to_enrich, ci, out, detail_log>>

\* lines 499-534: the entries of the repository are appended to out
EmitEntries ==
    /\ pc = "emit"
    /\ out' = out \o Entries(slug, latest_by_env, commit_cache)
    /\ ri' = ri + 1
    /\ pc' = IF ri < Len(repos) THEN "start" ELSE "sort"
    /\ UNCHANGED <<repos, values, vi, success, latest_by_env, env_cache, env_names,
                   commit_cache, to_enrich, ci, ei, calls, detail_log, last_commit,
                   last_tags>>

\* lines 536-537: the final sort, and the return
SortAndReturn ==
    /\ pc = "sort"
    /\ out' = SortedOut(out)
    /\ pc' = "done"
    /\ UNCHANGED <<repos, ri, values, vi, success, latest_by_env, env_cache, env_names,
                   commit_cache, to_enrich, ci, ei, calls, detail_log, last_commit,
                   last_tags>>

-----------------------------------------------------------------------------
(* Paginator: bbclient.py _get_paginated, lines 54-69.  A page is requested *)
(* by its url; urls are numbered along the chain of next links, the start   *)
(* path being 1, and NoNext is the value of data.get("next") of a page      *)
(* without next link.                                                       *)

NoNext == 0

MaxPageLen == 2     \* items in one page
MaxPages == 2       \* pages in one chain of next links
MaxItems == 3       \* greatest max_items asked for

Min(a, b) == IF a < b THEN a ELSE b

NoError == [kind |-> "none", status |-> 0]

\* a 404 answered by upstream taken for an empty collection
IsSuccessOrNotFound(status) == status \in 200..299 \/ status = 404

\* line 62: resp.raise_for_status() returns for a 2xx status
IsSuccess(status) == status \in 200..299

\* line 62: the exception raise_for_status() raises, which holds the response
StatusError(page) == [kind |-> "HTTPStatusError", status |-> page.status]

\* the cap tested with count > max_items: one item more is yielded
YieldedPastCap(page_values, count, max_items) ==
    Min(Len(page_values), IF count > max_items THEN 0 ELSE max_items + 1 - count)

\* lines 64-68: how many items of the page are yielded, the loop returning
\* at the first item met with count >= max_items
Yielded(page_values, count, max_items) ==
    Min(Len(page_values), IF count >= max_items THEN 0 ELSE max_items - count)

\* lines 65-66: the generator returned inside the page
CutInPage(page_values, count, max_items) ==
    Len(page_values) > Yielded(page_values, count, max_items)

\* lines 60, 66, 69: the generator ends after this page
LastPage(page, count, max_items) ==
    \/ CutInPage(page.values, count, max_items)
    \/ page.next = NoNext

-----------------------------------------------------------------------------
(* Dashboard assembler: pipeline_dashboard.py get_dashboard, lines 27-77    *)

\* the i-th pipeline of page url; finished and running pipelines alternate
PipelineAt(url, i) ==
    [ uuid              |-> <<url, i>>,
      target_ref_name   |-> "prod/v1",
      completed_on      |-> IF i % 2 = 1 THEN Stamp(url) ELSE <<>>,
      state_type        |-> "pipeline_state",
      state_name        |-> IF i % 2 = 1 THEN "COMPLETED" ELSE "IN_PROGRESS",
      state_result_name |-> IF i % 2 = 1 THEN "SUCCESSFUL" ELSE None,
      commit_hash       |-> "c1",
      commit_link       |-> None,
      links_html_href   |-> None,
      links_self_href   |-> "https://bb.org/pipelines/1" ]

PageResponses(url) ==
    {[status |-> st, values |-> <<>>, next |-> NoNext] : st \in {404, 500}}
    \cup {[status |-> 200, values |-> [i \in 1..n |-> PipelineAt(url, i)], next |-> nx] :
             n \in 0..MaxPageLen,
             nx \in {NoNext} \cup (IF url < MaxPages THEN {url + 1} ELSE {})}

\* lines 42-73: the entry of one pipeline
DashboardEntry(p) ==
    [ uuid              |-> p.uuid,
      ref_name          |-> p.target_ref_name,
      completed_on      |-> p.completed_on,
      result            |-> Or(Or(p.state_result_name, p.state_name), p.state_type),
      state_type        |-> p.state_type,
      state_name        |-> p.state_name,
      state_result_name |-> p.state_result_name,
      commit            |-> p.commit_hash,
      commit_link       |-> p.commit_link,
      pipeline_link     |-> Or(p.links_html_href, p.links_self_href) ]

\* the category stored only when it has entries
StoreCategoryIfAny(repo_data, pattern, entries) ==
    IF entries = <<>> THEN repo_data ELSE DictSet(repo_data, pattern, entries)

\* line 74: repo_data[pattern] = entries
StoreCategory(repo_data, pattern, entries) == DictSet(repo_data, pattern, entries)

pd_repo == pd_repos[pd_ri]

\* where get_dashboard goes after the repository at pd_ri
PdAfterRepo == IF pd_ri < Len(pd_repos) THEN "repo" ELSE "return"

\* lines 28-36: the next repository; a name without "/" is skipped, else a
\* client is created and the first pattern's listing begins
PdBeginRepo ==
    /\ pd_pc = "repo"
    /\ IF pd_repo.workspace = None
       THEN /\ pd_ri' = pd_ri + 1
            /\ pd_pc' = PdAfterRepo
            /\ UNCHANGED <<pd_clients, pd_repo_data, pd_ki, pd_url, pd_count, pd_entries>>
       ELSE /\ pd_clients' = Append(pd_clients, [repo |-> pd_repo.slug, closed |-> FALSE])
            /\ pd_repo_data' = EmptyDict
            /\ pd_ki' = 1
            /\ pd_url' = 1
            /\ pd_count' = 0
            /\ pd_entries' = <<>>
            /\ pd_pc' = IF pd_categories = <<>> THEN "close" ELSE "page"
            /\ UNCHANGED pd_ri
    /\ UNCHANGED <<pd_repos, pd_categories, pd_max_items, pd_dashboard, pd_fetches,
                   pd_error>>

\* bbclient.py lines 60-69 and pipeline_dashboard.py lines 36-74: one page
\* is requested and its items are consumed; raise_for_status() ends the call
\* with an error; when the generator ends the entries are stored and the
\* next pattern's listing begins
PdFetchPage ==
    /\ pd_pc = "page"
    /\ \E page \in PageResponses(pd_url) :
          /\ pd_fetches' = Append(pd_fetches,
                 [repo |-> pd_repo.slug, pattern |-> pd_categories[pd_ki],
                  url |-> pd_url, status |-> page.status, items |-> Len(page.values),
                  next |-> page.next])
          /\ IF ~IsSuccess(page.status)
             THEN /\ pd_pc' = "raised"
                  /\ pd_error' = StatusError(page)
                  /\ UNCHANGED <<pd_ki, pd_url, pd_count, pd_entries, pd_repo_data>>
             ELSE LET k == Yielded(page.values, pd_count, pd_max_items)
                      entries == pd_entries \o [i \in 1..k |-> DashboardEntry(page.values[i])]
                  IN  /\ UNCHANGED pd_error
                      /\ IF LastPage(page, pd_count, pd_max_items)
                         THEN /\ pd_repo_data' =
                                    StoreCategory(pd_repo_data, pd_categories[pd_ki], entries)
                              /\ pd_entries' = <<>>
                              /\ pd_url' = 1
                              /\ pd_count' = 0
                              /\ pd_ki' = IF pd_ki < Len(pd_categories) THEN pd_ki + 1 ELSE pd_ki
                              /\ pd_pc' = IF pd_ki < Len(pd_categories) THEN "page" ELSE "close"
                         ELSE /\ pd_entries' = entries
                              /\ pd_url' = page.next
                              /\ pd_count' = pd_count + k
                              /\ pd_pc' = "page"
                              /\ UNCHANGED <<pd_ki, pd_repo_data>>
    /\ UNCHANGED <<pd_repos, pd_categories, pd_max_items, pd_ri, pd_dashboard, pd_clients>>

\* lines 75-76: the client is closed and the repository stored
PdCloseRepo ==
    /\ pd_pc = "close"
    /\ pd_clients' = [pd_clients EXCEPT ![Len(pd_clients)].closed = TRUE]
    /\ pd_dashboard' = DictSet(pd_dashboard, pd_repo.slug, pd_repo_data)
    /\ pd_ri' = pd_ri + 1
    /\ pd_pc' = PdAfterRepo
    /\ UNCHANGED <<pd_repos, pd_categories, pd_max_items, pd_ki, pd_url, pd_count,
                   pd_entries, pd_repo_data, pd_fetches, pd_error>>

\* line 77
PdReturn ==
    /\ pd_pc = "return"
    /\ pd_pc' = "returned"
    /\ UNCHANGED <<pd_repos, pd_categories, pd_max_items, pd_ri, pd_ki, pd_url, pd_count,
                   pd_entries, pd_repo_data, pd_dashboard, pd_clients, pd_fetches, pd_error>>

-----------------------------------------------------------------------------
(* Specifications *)

\* BITBUCKET_REPOS: repositories given as workspace/slug, each once
RepoConfigs == { <<"web", "api">>, <<"api">> }

DepInit(configs) ==
    /\ repos \in configs
    /\ ri = 1
    /\ pc = "start"
    /\ values = <<>>
    /\ vi = 1 /\ ci = 1 /\ ei = 1
    /\ success = FALSE
    /\ latest_by_env = <<>>
    /\ env_cache = EmptyDict
    /\ env_names = <<>>
    /\ detail_log = <<>>
    /\ commit_cache = EmptyDict
    /\ to_enrich = <<>>
    /\ out = <<>>
    /\ calls = <<>>
    /\ last_commit = NoResponse
    /\ last_tags = NoResponse

\* the extractor is idle
ExIdle ==
    /\ ex_item = EmptyItem
    /\ ex_out = None
    /\ ex_pc = "done"

\* the handler is never called
DepIdle ==
    /\ DepInit({<<"api">>})

Repo(workspace, name) == [workspace |-> workspace, slug |-> name]

\* repo_full_names and categories: two repositories asked for one category,
\* or a name without "/" and one repository asked for two categories
DashboardConfigs ==
    { [repos |-> <<Repo("ws", "api"), Repo("ws", "web")>>,
       categories |-> <<"prod/v*">>],
      [repos |-> <<Repo(None, "app"), Repo("ws", "api")>>,
       categories |-> <<"qa/v*", "prod/v*">>] }

PdInit(configs, max) ==
    /\ \E c \in configs : pd_repos = c.repos /\ pd_categories = c.categories
    /\ pd_max_items \in 0..max
    /\ pd_ri = 1
    /\ pd_ki = 1
    /\ pd_pc = "repo"
    /\ pd_url = 1
    /\ pd_count = 0
    /\ pd_entries = <<>>
    /\ pd_repo_data = EmptyDict
    /\ pd_dashboard = EmptyDict
    /\ pd_clients = <<>>
    /\ pd_fetches = <<>>
    /\ pd_error = NoError

\* get_dashboard is never called
PdIdle == PdInit({[repos |-> <<Repo("ws", "api")>>, categories |-> <<>>]}, 0)

\* ---- the /deployments handler over the build's records
Init == DepInit(RepoConfigs) /\ ExIdle /\ PdIdle

Next ==
    \/ StartRepo(BuildPool, MaxRecords) /\ UNCHANGED <<ex_vars, pd_vars>>
    \/ GroupRecord /\ UNCHANGED <<ex_vars, pd_vars>>
    \/ PipelineFallback /\ UNCHANGED <<ex_vars, pd_vars>>
    \/ CollectRecord /\ UNCHANGED <<ex_vars, pd_vars>>
    \/ EnrichCommit /\ UNCHANGED <<ex_vars, pd_vars>>
    \/ EmitEntries /\ UNCHANGED <<ex_vars, pd_vars>>
    \/ SortAndReturn /\ UNCHANGED <<ex_vars, pd_vars>>

Spec == Init /\ [][Next]_vars

\* ---- the /deployments handler over the resolver's records, one repository
InitResolver == DepInit({<<"api">>}) /\ ExIdle /\ PdIdle

NextResolver ==
    \/ StartRepo(ResolverPool, MaxResolverRecords) /\ UNCHANGED <<ex_vars, pd_vars>>
    \/ GroupRecord /\ UNCHANGED <<ex_vars, pd_vars>>
    \/ PipelineFallback /\ UNCHANGED <<ex_vars, pd_vars>>
    \/ CollectRecord /\ UNCHANGED <<ex_vars, pd_vars>>
    \/ EnrichCommit /\ UNCHANGED <<ex_vars, pd_vars>>
    \/ EmitEntries /\ UNCHANGED <<ex_vars, pd_vars>>
    \/ SortAndReturn /\ UNCHANGED <<ex_vars, pd_vars>>

SpecResolver == InitResolver /\ [][NextResolver]_vars

\* ---- the /deployments handler over the environment cache's records
InitEnvCache == DepInit({<<"api">>}) /\ ExIdle /\ PdIdle

NextEnvCache ==
    \/ StartRepo(EnvPool, MaxEnvRecords) /\ UNCHANGED <<ex_vars, pd_vars>>
    \/ GroupRecord /\ UNCHANGED <<ex_vars, pd_vars>>
    \/ PipelineFallback /\ UNCHANGED <<ex_vars, pd_vars>>
    \/ CollectRecord /\ UNCHANGED <<ex_vars, pd_vars>>
    \/ EnrichCommit /\ UNCHANGED <<ex_vars, pd_vars>>
    \/ EmitEntries /\ UNCHANGED <<ex_vars, pd_vars>>
    \/ SortAndReturn /\ UNCHANGED <<ex_vars, pd_vars>>

SpecEnvCache == InitEnvCache /\ [][NextEnvCache]_vars

\* ---- the /deployments handler over the detail fetch's records
InitDetail == DepInit({<<"api">>}) /\ ExIdle /\ PdIdle

NextDetail ==
    \/ StartRepo(DetailPool, MaxDetailRecords) /\ UNCHANGED <<ex_vars, pd_vars>>
    \/ GroupRecord /\ UNCHANGED <<ex_vars, pd_vars>>
    \/ PipelineFallback /\ UNCHANGED <<ex_vars, pd_vars>>
    \/ CollectRecord /\ UNCHANGED <<ex_vars, pd_vars>>
    \/ EnrichCommit /\ UNCHANGED <<ex_vars, pd_vars>>
    \/ EmitEntries /\ UNCHANGED <<ex_vars, pd_vars>>
    \/ SortAndReturn /\ UNCHANGED <<ex_vars, pd_vars>>

SpecDetail == InitDetail /\ [][NextDetail]_vars

\* ---- the extractor alone
InitExtract == ExInit /\ DepIdle /\ PdIdle

NextExtract == ExtractCommit /\ UNCHANGED <<dep_vars, pd_vars>>

SpecExtract == InitExtract /\ [][NextExtract]_vars

\* ---- get_dashboard
InitDashboard ==
    PdInit(DashboardConfigs, MaxItems) /\ DepIdle /\ ExIdle

NextDashboard ==
    \/ PdBeginRepo /\ UNCHANGED <<ex_vars, dep_vars>>
    \/ PdFetchPage /\ UNCHANGED <<ex_vars, dep_vars>>
    \/ PdCloseRepo /\ UNCHANGED <<ex_vars, dep_vars>>
    \/ PdReturn /\ UNCHANGED <<ex_vars, dep_vars>>

SpecDashboard == InitDashboard /\ [][NextDashboard]_vars

-----------------------------------------------------------------------------
(* Properties of the environment resolver (SpecResolver)                    *)

\* the deployments loop of the current repository has ended and nothing has
\* touched the retained records yet
GroupingDone == pc = "collect" /\ ci = 1 /\ values # <<>>

\* the environment name record i of the listing resolved to
ResolvedName(i) == EnvName(values[i].environment, env_cache)

\* the records of the listing that resolve to env
RecordsOf(env) == {i \in 1..Len(values) : ResolvedName(i) = env}

ListedEnvs == {ResolvedName(i) : i \in 1..Len(values)} \ {None, ""}

\* the records of env whose candidate timestamp is the greatest of env
Greatest(env) ==
    {i \in RecordsOf(env) :
        \A j \in RecordsOf(env) : ~SeqLt(CandidateTs(values[i]), CandidateTs(values[j]))}

MinOf(S) == CHOOSE i \in S : \A j \in S : i <= j
MaxOf(S) == CHOOSE i \in S : \A j \in S : j <= i

\* C1: for every environment name of the listing, the retained record is one
\* of the records of that name with the lexicographically greatest candidate
\* timestamp, whichever of the four fields carries it.
C1_GreatestRetained ==
    GroupingDone =>
        \A env \in ListedEnvs :
            /\ env \in EnvKeys(latest_by_env)
            /\ \E i \in Greatest(env) : EnvItem(latest_by_env, env) = values[i]

\* C2 as stated: among records of one environment tied at the greatest
\* candidate timestamp, the one processed last is retained.
C2_LastOfTieRetained ==
    GroupingDone =>
        \A env \in ListedEnvs :
            Cardinality(Greatest(env)) >= 2 =>
                /\ env \in EnvKeys(latest_by_env)
                /\ EnvItem(latest_by_env, env) = values[MaxOf(Greatest(env))]

\* the tied records of env all carry the (non-empty) timestamp in update_time
TieInUpdateTime(env) ==
    /\ Cardinality(Greatest(env)) >= 2
    /\ \A i \in Greatest(env) :
          values[i].update_time # <<>>

\* C2 as amended: among records of one environment tied at the greatest
\* candidate timestamp, each carrying it in update_time, the one processed
\* first is retained.
C2_FirstOfTieRetained ==
    GroupingDone =>
        \A env \in ListedEnvs :
            TieInUpdateTime(env) =>
                /\ env \in EnvKeys(latest_by_env)
                /\ EnvItem(latest_by_env, env) = values[MinOf(Greatest(env))]

\* two different records tied in update_time, the first of them retained
C2_Witness ==
    /\ GroupingDone
    /\ \E env \in ListedEnvs :
          /\ TieInUpdateTime(env)
          /\ values[MinOf(Greatest(env))] # values[MaxOf(Greatest(env))]
          /\ EnvItem(latest_by_env, env) = values[MinOf(Greatest(env))]

-----------------------------------------------------------------------------
(* Properties of the commit extractor (SpecExtract)                         *)

\* the <hash> of a URL whose path contains /commit/<hash>, None otherwise
HrefCommitHash(href) ==
    LET at == {i \in 2..(Len(href) - 1) : href[i] = "commit" /\ href[i + 1] # ""}
    IN  IF at = {} THEN None ELSE href[MinOf(at) + 1]

\* the first non-empty string of a list of leaves
FirstNonEmpty(leaves) ==
    LET hits == {i \in 1..Len(leaves) : IsStr(leaves[i]) /\ leaves[i] # ""}
    IN  IF hits = {} THEN None ELSE leaves[MinOf(hits)]

\* the strategies of the extractor in their documented order
DocumentedStrategies(item) ==
    << item.deployable_commit_hash,
       item.release_commit_hash,
       item.commit_hash,
       item.commit_str,
       item.deployment_commit_hash,
       item.deployment_commit_str,
       item.pull_request_merge_commit_hash,
       item.target_commit_hash,
       item.revision,
       item.source_commit_hash,
       HrefCommitHash(item.links_commit_href),
       HrefCommitHash(item.links_html_href) >>

\* C3: the extractor returns the value of the first strategy, in the
\* documented order starting at deployable.commit.hash, that yields a
\* non-empty string.
C3_PriorityOrder ==
    ex_pc = "done" => ex_out = FirstNonEmpty(DocumentedStrategies(ex_item))

\* the record has none of the direct commit fields
NoDirectCommit(item) ==
    \A i \in 1..10 : DocumentedStrategies(item)[i] = None

\* C4: for a record with no direct commit field, when links.commit.href or
\* links.html.href contains /commit/<hash> the extractor returns <hash>,
\* also when links.commit.href is present without a /commit/ segment.
C4_UrlFallback ==
    (/\ ex_pc = "done"
     /\ NoDirectCommit(ex_item)
     /\ \/ HrefCommitHash(ex_item.links_commit_href) # None
        \/ HrefCommitHash(ex_item.links_html_href) # None)
    => ex_out = Or(HrefCommitHash(ex_item.links_commit_href),
                   HrefCommitHash(ex_item.links_html_href))

-----------------------------------------------------------------------------
(* Properties of the /deployments handler (Spec)                            *)

\* how many times a request was issued
TimesCalled(call) == Cardinality({i \in 1..Len(calls) : calls[i] = call})

\* C5: within one build, for every repository and commit hash, at most one
\* commit-detail request and at most one tag-search request are issued,
\* whether the lookups succeed or fail.
C5_FetchedOnce ==
    \A i \in 1..Len(calls) :
        calls[i].kind \in {"commit", "tags"} => TimesCalled(calls[i]) = 1

\* a hash requested twice in one pass, its lookups failed, fetched once
C5_Witness ==
    /\ pc = "emit"
    /\ \E i, j \in 1..Len(to_enrich) : i < j /\ to_enrich[i] = to_enrich[j]
    /\ last_commit.status = 404 /\ last_tags.status = 404
    /\ TimesCalled(Call("commit", slug, last_commit.hash)) = 1
    /\ TimesCalled(Call("tags", slug, last_tags.hash)) = 1

\* the entries of out for one repository and environment
EntriesFor(repo, env) ==
    {k \in 1..Len(out) : out[k].repository = repo /\ out[k].environment = env}

\* the repository before the current one has just been emitted or skipped;
\* latest_by_env still holds its selection
RepoLeft == pc \in {"start", "sort", "done"} /\ ri > 1

\* C8: every deployment selected as latest for an environment has one entry
\* in the output, also when its commit-detail lookup, its tag lookup or both
\* failed; the entry then carries no tag.
C8_EntryDespiteFailure ==
    RepoLeft =>
        \A i \in 1..Len(latest_by_env) :
            LET d == latest_by_env[i].d
                E == EntriesFor(repos[ri - 1], latest_by_env[i].env)
            IN  /\ Cardinality(E) = 1
                /\ \A k \in E :
                      /\ out[k].commit = CommitHashFromDeployment(d)
                      /\ out[k].update_time = CandidateTs(d)
                      /\ (last_tags.hash = out[k].commit /\ last_tags.status # 200)
                            => out[k].tag = None

\* a selected deployment whose two lookups failed, present in the output
C8_Witness ==
    /\ RepoLeft
    /\ last_commit.status = 404 /\ last_tags.status = 404
    /\ \E i \in 1..Len(latest_by_env) :
          /\ CommitHashFromDeployment(latest_by_env[i].d) = last_commit.hash
          /\ \E k \in EntriesFor(repos[ri - 1], latest_by_env[i].env) :
                out[k].commit = last_commit.hash /\ out[k].tag = None

\* C9: a failed commit-detail lookup leaves message and date absent and the
\* tag as the tag search found it; a failed tag search leaves the tag absent
\* and message and date as the commit detail gave them; a CommitInfo is
\* stored for the hash in both cases.
C9_IndependentLookups ==
    last_commit.hash # None =>
        /\ last_tags.hash = last_commit.hash
        /\ last_commit.hash \in DOMAIN commit_cache
        /\ LET info == commit_cache[last_commit.hash]
               rc == last_commit.body
               rt == last_tags.body
           IN  /\ rc.status # 200 => info.message = None /\ info.date = None
               /\ rc.status = 200 =>
                     /\ info.message = rc.message
                     /\ info.date = Or(rc.date, rc.author_date)
               /\ rt.status # 200 => info.tag = None
               /\ (rt.status = 200 /\ rt.values # <<>>) => info.tag = rt.values[1]
               /\ (rt.status = 200 /\ rt.values = <<>>) => info.tag = None

\* the commit detail failed and the tag found is stored
C9_Witness ==
    /\ last_commit.hash # None
    /\ last_commit.status = 404
    /\ last_tags.status = 200
    /\ last_commit.hash \in DOMAIN commit_cache
    /\ commit_cache[last_commit.hash].tag = "v1.2"
    /\ commit_cache[last_commit.hash].message = None

\* C10: the returned list is sorted ascending by (repository, environment).
C10_SortedOutput ==
    pc = "done" =>
        \A i, j \in 1..Len(out) : i < j => ~KeyLt(out[j], out[i])

\* entries of two repositories returned in another order than processed
C10_Witness ==
    /\ pc = "done"
    /\ Len(out) >= 3
    /\ repos[1] = "web"
    /\ out[1].repository = "api"
    /\ out[Len(out)].repository = "web"

-----------------------------------------------------------------------------
(* Properties of get_dashboard (SpecDashboard)                              *)

QualifiedSlugs == {pd_repos[i].slug : i \in {j \in 1..Len(pd_repos) : pd_repos[j].workspace # None}}

FetchesOf(repo, pattern) ==
    {i \in 1..Len(pd_fetches) : pd_fetches[i].repo = repo /\ pd_fetches[i].pattern = pattern}

\* a page request of the repository was answered with a non-success status
FetchFailed(repo) ==
    \E i \in 1..Len(pd_fetches) :
        pd_fetches[i].repo = repo /\ ~IsSuccess(pd_fetches[i].status)

\* C6: when the listing of one repository fails and another repository's
\* listings succeeded, the build does not raise; its result holds the complete
\* entry set of every succeeding repository and nothing for the failing one.
C6_RepositoryIsolation ==
    /\ (/\ \E r \in QualifiedSlugs : FetchFailed(r)
        /\ \E r \in QualifiedSlugs : ~FetchFailed(r) /\ r \in DOMAIN pd_dashboard)
       => pd_pc # "raised"
    /\ pd_pc = "returned" =>
          \A r \in QualifiedSlugs :
              IF FetchFailed(r) THEN r \notin DOMAIN pd_dashboard
              ELSE /\ r \in DOMAIN pd_dashboard
                   /\ \A c \in Range(pd_categories) : c \in DOMAIN pd_dashboard[r]

\* C7: every repository key of the returned mapping has a key for every
\* requested category; a category for which upstream listed nothing maps to
\* the empty sequence.
C7_EveryCategoryPresent ==
    pd_pc = "returned" =>
        /\ DOMAIN pd_dashboard = QualifiedSlugs
        /\ \A r \in DOMAIN pd_dashboard :
              \A c \in Range(pd_categories) :
                  /\ c \in DOMAIN pd_dashboard[r]
                  /\ (\A i \in FetchesOf(r, c) : pd_fetches[i].items = 0)
                        => pd_dashboard[r][c] = <<>>

\* a repository returned with two categories, upstream having listed nothing
\* for one of them, which maps to the empty sequence, and entries for the other
C7_Witness ==
    /\ pd_pc = "returned"
    /\ Len(pd_categories) = 2
    /\ \E r \in DOMAIN pd_dashboard :
          /\ \E c \in Range(pd_categories) :
                /\ \A i \in FetchesOf(r, c) : pd_fetches[i].items = 0
                /\ c \in DOMAIN pd_dashboard[r]
                /\ pd_dashboard[r][c] = <<>>
          /\ \E c \in Range(pd_categories) :
                c \in DOMAIN pd_dashboard[r] /\ pd_dashboard[r][c] # <<>>

-----------------------------------------------------------------------------
(* Properties of the paginator as get_dashboard drives it (SpecDashboard).  *)
(* A repository and a pattern name one call of _get_paginated: every        *)
(* repository and every pattern is given once.                              *)

\* the records of one page as upstream sent them, named by their uuid
PageUuids(fetch) == [i \in 1..fetch.items |-> <<fetch.url, i>>]

\* the records of the pages the call received, in the order it walked them
Walked(repo, pattern) ==
    LET F[k \in 0..Len(pd_fetches)] ==
            IF k = 0 THEN <<>>
            ELSE IF k \in FetchesOf(repo, pattern) /\ pd_fetches[k].status = 200
                 THEN F[k - 1] \o PageUuids(pd_fetches[k])
                 ELSE F[k - 1]
    IN  F[Len(pd_fetches)]

\* entries are the leading records of walked, all of them or max_items
LeadingRecords(entries, walked) ==
    /\ Len(entries) <= pd_max_items
    /\ Len(entries) = Min(pd_max_items, Len(walked))
    /\ \A i \in 1..Len(entries) : entries[i].uuid = walked[i]

\* the listing of a pattern is under way, or was ended by an error
Listing == pd_pc \in {"page", "raised"}

\* C11: every call of the paginator yields at most max_items records, and
\* they are the leading records of the pages it walked, in link order,
\* without skip, duplicate or reordering; this holds of the records yielded
\* so far and of every finished listing.
C11_CapAndOrder ==
    /\ Listing =>
          LeadingRecords(pd_entries, Walked(pd_repo.slug, pd_categories[pd_ki]))
    /\ pd_pc \in {"page", "close", "raised"} =>
          \A c \in DOMAIN pd_repo_data :
              LeadingRecords(pd_repo_data[c], Walked(pd_repo.slug, c))
    /\ \A r \in DOMAIN pd_dashboard :
          \A c \in DOMAIN pd_dashboard[r] :
              LeadingRecords(pd_dashboard[r][c], Walked(r, c))

\* a finished listing cut by the cap inside its second page
C11_Witness ==
    /\ pd_pc = "returned"
    /\ \E r \in DOMAIN pd_dashboard :
          \E c \in DOMAIN pd_dashboard[r] :
              LET entries == pd_dashboard[r][c]
              IN  /\ Len(entries) = pd_max_items
                  /\ Len(entries) >= 2
                  /\ entries[1].uuid[1] = 1
                  /\ entries[Len(entries)].uuid[1] = 2
                  /\ Len(Walked(r, c)) > Len(entries)

\* how many records the pages of the call held, up to and with request k
ItemsThrough(repo, pattern, k) ==
    LET F[j \in 0..k] ==
            IF j = 0 THEN 0
            ELSE IF j \in FetchesOf(repo, pattern) /\ pd_fetches[j].status = 200
                 THEN F[j - 1] + pd_fetches[j].items
                 ELSE F[j - 1]
    IN  F[k]

\* request k is followed by another page request of the same call
FetchedOn(k) ==
    /\ k < Len(pd_fetches)
    /\ pd_fetches[k + 1].repo = pd_fetches[k].repo
    /\ pd_fetches[k + 1].pattern = pd_fetches[k].pattern

\* C12: a call of the paginator issues no page request after a page without
\* next link, after an empty page (with or without next link), or once the
\* pages received hold max_items records or more (also when the cap is met
\* exactly at the end of a page that carries a next link).
C12_StopConditions ==
    \A k \in 1..Len(pd_fetches) :
        FetchedOn(k) =>
            /\ pd_fetches[k].next # NoNext
            /\ pd_fetches[k].items > 0
            /\ ItemsThrough(pd_fetches[k].repo, pd_fetches[k].pattern, k) < pd_max_items

\* C13: when the request of the first page of a call is answered with a
\* non-success status, the call fails with an error that carries that
\* status, no further request is issued, and no record is yielded: nothing
\* is gathered or stored for that listing.
C13_FirstPageFailure ==
    \A k \in 1..Len(pd_fetches) :
        (pd_fetches[k].url = 1 /\ pd_fetches[k].status \notin 200..299) =>
            /\ k = Len(pd_fetches)
            /\ pd_pc = "raised"
            /\ pd_error.kind = "HTTPStatusError"
            /\ pd_error.status = pd_fetches[k].status
            /\ pd_entries = <<>>
            /\ pd_fetches[k].pattern \notin DOMAIN pd_repo_data

\* the first page of the second pattern's listing answered 404, after the
\* first pattern's listing gave records
C13_Witness ==
    /\ pd_pc = "raised"
    /\ pd_ki = 2
    /\ pd_fetches[Len(pd_fetches)].url = 1
    /\ pd_fetches[Len(pd_fetches)].status = 404
    /\ pd_error.status = 404
    /\ pd_repo_data[pd_categories[1]] # <<>>

-----------------------------------------------------------------------------
(* Pipeline pattern selection as get_dashboard performs it (SpecDashboard)  *)

\* what the selection of one pattern gave: one query was issued, and the
\* result is the first item of its page, or nothing when the page is empty
FirstItemOfFirstPage(repo, pattern, entries) ==
    /\ Cardinality(FetchesOf(repo, pattern)) = 1
    /\ \A k \in FetchesOf(repo, pattern) :
          /\ pd_fetches[k].url = 1
          /\ entries = IF pd_fetches[k].status = 200 /\ pd_fetches[k].items > 0
                       THEN <<DashboardEntry(PipelineAt(1, 1))>>
                       ELSE <<>>

\* C14: for every repository and pattern a single pipeline-listing query is
\* issued and the result is exactly the first item of the first page, or
\* nothing when that page is empty or the fetch fails; never more than one
\* pipeline, and a failed fetch never raises.
C14_SingleQueryFirstItem ==
    /\ pd_pc # "raised"
    /\ pd_pc \in {"page", "close"} =>
          \A c \in DOMAIN pd_repo_data :
              FirstItemOfFirstPage(pd_repo.slug, c, pd_repo_data[c])
    /\ \A r \in DOMAIN pd_dashboard :
          \A c \in DOMAIN pd_dashboard[r] :
              FirstItemOfFirstPage(r, c, pd_dashboard[r][c])

-----------------------------------------------------------------------------
(* Release of the clients get_dashboard creates (SpecDashboard)             *)

\* get_dashboard has ended, by its return or by an exception
CallEnded == pd_pc \in {"returned", "raised"}

\* C19: every BitbucketClient created for a repository has been closed when
\* the call has ended, whichever way it ended, also when a pipeline listing
\* of that repository failed with an error.
C19_ClientsClosed ==
    CallEnded => \A i \in 1..Len(pd_clients) : pd_clients[i].closed

-----------------------------------------------------------------------------
(* Result shape of the commit extractor (SpecExtract)                       *)

\* one of the direct commit fields of the record is the empty string
HasEmptyField(item) ==
    \E i \in 1..10 : DocumentedStrategies(item)[i] = ""

\* the record has none of the shapes of C3 and C4: no deployable or release
\* commit, and links.commit, when present, holds /commit/<hash>
PlainRecord(item) ==
    /\ item.deployable_commit_hash = None
    /\ item.release_commit_hash = None
    /\ item.links_commit_href = NoHref \/ HrefCommitHash(item.links_commit_href) # None

\* C18: the extractor returns either nothing or a non-empty string; an empty
\* string in a field is never returned as the commit hash and does not stop
\* the later strategies from being tried.
C18_AbsentOrNonEmpty ==
    ex_pc = "done" =>
        /\ ex_out # ""
        /\ ex_out = None \/ IsStr(ex_out)
        /\ (HasEmptyField(ex_item) /\ PlainRecord(ex_item))
              => ex_out = FirstNonEmpty(DocumentedStrategies(ex_item))

-----------------------------------------------------------------------------
(* Success-required selection (SpecResolver).  The status events of a       *)
(* deployment are what bbclient.py get_deployment_statuses (lines 91-100)   *)
(* would list for it; deployments() never asks for them.                    *)

\* the `state` of the status events upstream holds for each deployment
DeploymentStatuses(uuid) ==
    CASE uuid = "{d1}" -> <<"IN_PROGRESS", "SUCCESSFUL">>
      [] uuid = "{d2}" -> <<"IN_PROGRESS", "FAILED">>
      [] uuid = "{d3}" -> <<"SUCCESSFUL">>
      [] OTHER         -> <<>>

\* the deployment has at least one successful status event
HasSuccessfulStatus(d) == "SUCCESSFUL" \in Range(DeploymentStatuses(d.uuid))

\* the records of env that are eligible in the success-required mode
Eligible(env) == {i \in RecordsOf(env) : HasSuccessfulStatus(values[i])}

\* the eligible records of env with the greatest candidate timestamp
GreatestEligible(env) ==
    {i \in Eligible(env) :
        \A j \in Eligible(env) : ~SeqLt(CandidateTs(values[i]), CandidateTs(values[j]))}

\* C15: a deployment without a successful status event is never the record
\* selected for its environment, even with the greatest timestamp; the
\* selected record is the greatest-timestamp one among the deployments with
\* at least one successful status.
C15_SuccessRequired ==
    GroupingDone =>
        /\ \A k \in 1..Len(latest_by_env) : HasSuccessfulStatus(latest_by_env[k].d)
        /\ \A env \in ListedEnvs :
              Eligible(env) # {} =>
                  /\ env \in EnvKeys(latest_by_env)
                  /\ \E i \in GreatestEligible(env) :
                        EnvItem(latest_by_env, env) = values[i]

-----------------------------------------------------------------------------
(* Properties of the environment cache (SpecEnvCache)                       *)

\* record j of the listing has been grouped and its name had to come from
\* its environment uuid: it carries no name of its own
ByUuid(j) ==
    /\ j <= Len(env_names)
    /\ values[j].environment.kind = "dict"
    /\ ~Truthy(values[j].environment.name)
    /\ ~Truthy(values[j].environment.environment_type)
    /\ Truthy(values[j].environment.uuid)

\* the deployments loop of the current repository has just ended
GroupingEnded ==
    \/ pc = "fallback"
    \/ pc = "collect" /\ ci = 1 /\ calls[Len(calls)].kind # "pipelines"

\* C16: within the pass of one repository at most one environment lookup is
\* issued per environment uuid, whether it succeeded or failed; the records
\* that take their name from the same uuid all get the same name; and a
\* record whose name could not be resolved is skipped from grouping while
\* the pass goes on over the remaining records.
C16_EnvironmentCache ==
    /\ \A i \in 1..Len(calls) :
          calls[i].kind = "environment" => TimesCalled(calls[i]) = 1
    /\ pc # "start" =>
          \A j, k \in 1..Len(values) :
              (/\ ByUuid(j) /\ ByUuid(k)
               /\ values[j].environment.uuid = values[k].environment.uuid)
              => env_names[j] = env_names[k]
    /\ GroupingEnded =>
          /\ Len(env_names) = Len(values)
          /\ EnvKeys(latest_by_env) = {n \in Range(env_names) : Truthy(n)}
          /\ \A j \in 1..Len(values) :
                ~Truthy(env_names[j]) =>
                    \A k \in 1..Len(latest_by_env) : latest_by_env[k].d # values[j]

\* two different deployments of one uuid whose only lookup failed, both
\* skipped, between a deployment that resolved and was grouped
C16_Witness ==
    /\ GroupingEnded
    /\ Len(values) = 3
    /\ ByUuid(1) /\ ByUuid(2) /\ ByUuid(3)
    /\ values[1].environment.uuid = values[3].environment.uuid
    /\ values[1] # values[3]
    /\ env_names[1] = None /\ env_names[3] = None
    /\ env_names[2] = "stg"
    /\ EnvKeys(latest_by_env) = {"stg"}
    /\ TimesCalled(Call("environment", slug, values[1].environment.uuid)) = 1

\* record j of the listing has been grouped and its environment carries a uuid
CarriesUuid(j) ==
    /\ j <= Len(env_names)
    /\ values[j].environment.kind = "dict"
    /\ Truthy(values[j].environment.uuid)

\* C16 as stated: at most one environment lookup per uuid in a pass, and all
\* the records carrying the same uuid resolve to the same name, whether or
\* not they carry a name of their own; unresolved records are skipped.
C16_SameUuidSameName ==
    /\ \A i \in 1..Len(calls) :
          calls[i].kind = "environment" => TimesCalled(calls[i]) = 1
    /\ pc # "start" =>
          \A j, k \in 1..Len(values) :
              (/\ CarriesUuid(j) /\ CarriesUuid(k)
               /\ values[j].environment.uuid = values[k].environment.uuid)
              => env_names[j] = env_names[k]
    /\ GroupingEnded =>
          \A j \in 1..Len(values) :
              ~Truthy(env_names[j]) =>
                  \A k \in 1..Len(latest_by_env) : latest_by_env[k].d # values[j]

-----------------------------------------------------------------------------
(* Detail fetch and retry of the extraction (SpecDetail)                    *)

\* every extraction strategy failed on the record: no hash came out of it
NoHashIn(d) == ~Truthy(CommitHashFromDeployment(d))

\* what the entry of a collected record must carry as commit when the
\* extraction failed on it: the hash the retry on the expanded record
\* yielded, or nothing
CommitAfterRetry(log) ==
    IF log.fetched /\ log.status = 200 /\ ~NoHashIn(log.body)
    THEN CommitHashFromDeployment(log.body)
    ELSE None

\* C17: for every selected record on which every extraction strategy fails,
\* at most one detail fetch is issued, by the record's identifier; the entry
\* of the record carries the hash the retry on the expanded record yielded,
\* and no commit at all when the detail fetch failed or the retry yielded
\* nothing.
C17_DetailRetry ==
    /\ \A i \in 1..Len(calls) :
          calls[i].kind = "detail" => TimesCalled(calls[i]) = 1
    /\ \A k \in 1..Len(detail_log) :
          /\ detail_log[k].fetched => NoHashIn(detail_log[k].before)
          /\ detail_log[k].fetched =>
                \E i \in 1..Len(calls) :
                    /\ calls[i].kind = "detail"
                    /\ calls[i].key = DetailUuid(detail_log[k].before)
    /\ RepoLeft =>
          \A k \in 1..Len(detail_log) :
              NoHashIn(detail_log[k].before) =>
                  \A e \in EntriesFor(repos[ri - 1], detail_log[k].env) :
                      out[e].commit = CommitAfterRetry(detail_log[k])

=============================================================================
